---- MODULE Spec2Model ----
(***************************************************************************)
(* Model of the DNA-mix protocol, src/DNA mix and Aliquoting/DNAmix_final.py *)
(* (function run).  The run is one sequential program; every action below  *)
(* is one iteration of one of its loops, taken in program order.           *)
(*                                                                         *)
(* Volumes are exact rationals [n, d] in microlitres.  The source computes *)
(* in binary floating point; the tables enumerated in Init hold volumes on *)
(* a 0.1 uL grid for which every comparison the source makes has the same  *)
(* outcome in floating point as in exact arithmetic.                       *)
(***************************************************************************)
EXTENDS Integers, Sequences, FiniteSets, TLC

VARIABLES
    csv,                    \* the table: one block of rows per mix
    mix_count,              \* protocol.params.mix_count
    max_plasmid_count,      \* protocol.params.max_plasmid_count
    premix,                 \* protocol.params.premix
    starting_tip_50,        \* index of the starting tip in the row-major tip list
    starting_tip_200,
    pc,                     \* position of the run
    mi,                     \* index (1-based) of the current mix / source in the current loop
    all_mix_data,
    intermediate_small_pool,
    intermediate_final_pool,
    intermediate_pool,
    assigned_small_wells,
    assigned_final_wells,
    alloc_break,            \* history: index of the mix at which the allocation loop broke, or 0
    nacl_order,             \* key order of the dicts nacl_totals / nacl_dests
    nacl_totals,
    nacl_dests,
    nacl_groups,            \* history: the groups executed for each source well
    nacl_pipette,           \* history: the pipette each NaCl source well was served with
    nacl_asp,               \* history: the volumes aspirated from each NaCl source well, in order
    tiprack_50,
    tiprack_50_reserve,
    tips50_by_row,
    tips200_by_row,
    counter_200,
    counter_50_f,
    swaps,                  \* history: number of calls of swap_rack50
    picked,                 \* history: the tips picked up, as <<class, rack, position>>
    repicked,               \* history: the tips picked up a second time
    rack_slot,              \* the deck slot each 50 uL rack stands in (move_labware)
    pickups,                \* history: number of pick_up_tip calls on each pipette
    drops,                  \* history: number of drop_tip calls on each pipette
    holding,                \* the pipettes that have a tip attached
    double_pick,            \* history: a pick_up_tip was issued on a pipette holding a tip
    premixed_sources,
    xk,                     \* number of transfer steps of the current mix already executed
    dispensed,              \* history: total volume dispensed into each location
    aspirated,              \* history: total volume aspirated from each location
    cmd_mixes,              \* history: the mixes a pick-up, aspirate or dispense was issued for
    nacl_to,                \* history: where the NaCl of each mix was dispensed
    nacl_draws,             \* history: aspirate-and-dispense cycles of the NaCl phase per <<mix, component>>
    xfer_draws,             \* history: transfers from the source well per <<mix, component>>
    asp_log,                \* history: <<pipette, volume>> of every aspirate issued
    premix_count,           \* history: premix steps per <<batch, source well>>
    msgs,                   \* history: the pause messages issued
    raised                  \* the uncaught exception that ended the run, or "none"

(* The aliquoting protocol, src/DNA mix and Aliquoting/DNAmix_aliquoting_final.py *)
(* (function run), is a second program with a state of its own.  Names of  *)
(* that file that the DNA-mix protocol also uses carry the prefix aq_.     *)
VARIABLES
    aq_mix_count,           \* protocol.params.mix_count
    reagent_vol,
    aliquot_vol,
    mix_position,           \* <<index of the row letter in "ABCDEFGH", column>>
    mix_rows_count,
    mix_columns_per_row,
    aq_premix,
    aq_pc,                  \* position of the run
    all_wells,
    destination_wells,
    tips1000_by_row,
    aq_tips200_by_row,
    counter_1000,
    aq_counter_200,
    has_tip,                \* p1000.has_tip
    vol_in_tip,
    well_index,
    aq_i,                   \* index of the aliquoting loop
    tip_liquid,             \* history: volume aspirated minus volume dispensed since the pick-up
    tip_peak,               \* history: the largest volume the distribution tip has held
    aq_picked,              \* history: the tips picked up, as <<class, position>>
    aq_commands,            \* history: number of aspirate, dispense and mix commands issued
    pcr_received,           \* history: the volume dispensed into each mix well
    cell_received,          \* history: <<cell-plate well, mix index>> for every aliquot dispensed
    aq_msgs,                \* history: the pause messages issued
    aq_raised               \* the exception that ended the run, or "none"

aliqvars == <<aq_mix_count, reagent_vol, aliquot_vol, mix_position, mix_rows_count,
              mix_columns_per_row, aq_premix, aq_pc, all_wells, destination_wells,
              tips1000_by_row, aq_tips200_by_row, counter_1000, aq_counter_200, has_tip,
              vol_in_tip, well_index, aq_i, tip_liquid, tip_peak, aq_picked, aq_commands,
              pcr_received, cell_received, aq_msgs, aq_raised>>

dnavars == <<csv, mix_count, max_plasmid_count, premix, starting_tip_50, starting_tip_200,
             pc, mi, all_mix_data, intermediate_small_pool, intermediate_final_pool,
             intermediate_pool, assigned_small_wells, assigned_final_wells, alloc_break,
             nacl_order, nacl_totals, nacl_dests, nacl_groups, nacl_pipette, nacl_asp,
             tiprack_50, tiprack_50_reserve, tips50_by_row, tips200_by_row,
             counter_200, counter_50_f, swaps, picked, repicked,
             rack_slot, pickups, drops, holding, double_pick,
             premixed_sources, xk, dispensed, aspirated, cmd_mixes, nacl_to,
             nacl_draws, xfer_draws, asp_log, premix_count, msgs, raised>>

vars == <<dnavars, aliqvars>>

inputs == <<csv, mix_count, max_plasmid_count, premix, starting_tip_50, starting_tip_200>>

----------------------------------------------------------------------------
(* Exact rational arithmetic standing for the source's float arithmetic. *)

RECURSIVE GCD(_, _)
GCD(a, b) == IF b = 0 THEN a ELSE GCD(b, a % b)

Rat(n, d) == LET g == GCD(n, d) IN [n |-> n \div g, d |-> d \div g]

Zero == [n |-> 0, d |-> 1]
One == [n |-> 1, d |-> 1]

RAdd(a, b) == Rat(a.n * b.d + b.n * a.d, a.d * b.d)
RMul(a, b) == Rat(a.n * b.n, a.d * b.d)
RDiv(a, b) == Rat(a.n * b.d, a.d * b.n)
RLt(a, b) == a.n * b.d < b.n * a.d
RLe(a, b) == a.n * b.d <= b.n * a.d
RSub(a, b) == Rat(a.n * b.d - b.n * a.d, a.d * b.d)

RECURSIVE RSum(_)
RSum(s) == IF s = <<>> THEN Zero ELSE RAdd(s[1], RSum(Tail(s)))

RECURSIVE RMin(_)
RMin(s) == IF Len(s) = 1 THEN s[1]
           ELSE LET r == RMin(Tail(s)) IN IF RLe(s[1], r) THEN s[1] ELSE r

----------------------------------------------------------------------------
(* Bounds of the model. *)

MaxMix == 2          \* longest table of the general family
LongRun == 7         \* table length of the family that drains the small/final pools
LongRunOne == 13     \* table length of the family that drains the combined pool
NaClRun == 3         \* table length of the family that packs NaCl from one source well
Rack50 == 2          \* tips per 50 uL rack
Rack200 == 3         \* tips in the 200 uL rack
ScenarioRun == 3     \* table length of the scenario of three like mixes
TruncatedMax == 2    \* a max_plasmid_count below the number of columns of a table
PremixRun == 13      \* table length of the family that premixes in two batches

(* Program constants. *)
PoolSize == 6
DefaultMaxPlasmid == 6
batch_size == 12
buffer == [n |-> 2, d |-> 1]
Threshold == [n |-> 4, d |-> 5]         \* the literal 0.8
V50 == [n |-> 50, d |-> 1]
V200 == [n |-> 200, d |-> 1]
Ten == [n |-> 10, d |-> 1]

Blank == <<>>            \* an empty cell
N(t) == <<t>>            \* a cell holding the number t/10

----------------------------------------------------------------------------
(* The tables the run is checked on.  A block is the rows of one mix: the  *)
(* destination cell (row 15m, column 0), the volume row 15m+12 and the     *)
(* source-well row 15m+13, both from column 1 on.  A volume cell is Blank  *)
(* or a number of tenths of a microlitre; a source cell is Blank or a well.*)

W(r, c) == <<r, c>>

TNormal    == [vol |-> <<N(50), N(100)>>,       src |-> <<W("A", 1), W("B", 1)>>]
TOne       == [vol |-> <<N(5), N(50), N(100)>>,    src |-> <<W("A", 2), W("A", 1), W("B", 1)>>]
TTwo       == [vol |-> <<N(3), N(3), N(100)>>,     src |-> <<W("A", 1), W("A", 2), W("B", 1)>>]
TTwoBig    == [vol |-> <<N(5), N(5), N(100)>>,     src |-> <<W("A", 1), W("A", 2), W("B", 1)>>]
TNaClSmall == [vol |-> <<N(50), N(5)>>,         src |-> <<W("A", 1), W("B", 1)>>]
TBigNaCl   == [vol |-> <<N(1), N(50), N(300)>>,    src |-> <<W("A", 2), W("A", 1), W("B", 2)>>]
THeavy     == [vol |-> <<N(600), N(1000)>>,     src |-> <<W("A", 3), W("B", 2)>>]
TSparse    == [vol |-> <<Blank, N(20), N(0)>>,  src |-> <<W("A", 1), Blank, W("B", 1)>>]
TEmpty     == [vol |-> <<Blank, N(-10)>>,    src |-> <<W("A", 1), W("B", 1)>>]
\* a block whose source-well row is absent: the table ends after its volume row
TNoSrc     == [vol |-> <<N(5), N(50), N(100)>>,    src |-> <<>>]

\* the mix of the scenario: plasmids of 5 and 1 uL, NaCl 10 uL from the shared well B1
TScen      == [vol |-> <<N(50), N(10), N(100)>>,   src |-> <<W("A", 1), W("A", 2), W("B", 1)>>]

\* mixes of one plasmid whose NaCl, all from well B1, fills the pipettes differently
TN90       == [vol |-> <<N(50), N(900)>>,       src |-> <<W("A", 1), W("B", 1)>>]
TN100      == [vol |-> <<N(50), N(1000)>>,      src |-> <<W("A", 1), W("B", 1)>>]
\* the same with NaCl from well B2, around the 48 uL limit of the low-volume pipette
TN240b     == [vol |-> <<N(50), N(240)>>,       src |-> <<W("A", 1), W("B", 2)>>]
TN241b     == [vol |-> <<N(50), N(241)>>,       src |-> <<W("A", 1), W("B", 2)>>]
NaClTemplates == {TNormal, TN90, TN100, TN240b, TN241b}

\* a mix without NaCl: the volume cell of its last column is blank
TNoNaCl    == [vol |-> <<N(50), Blank>>,        src |-> <<W("A", 1), W("B", 1)>>]
\* negative, blank and kept volume cells in turn, one kept column without source cell
TGaps      == [vol |-> <<N(-10), N(20), Blank, N(50), N(100)>>,
               src |-> <<W("A", 1), Blank, W("A", 2), W("A", 4), W("B", 1)>>]
ColumnTemplates == {TNormal, TNoNaCl, TScen, TGaps}

Templates == {TNormal, TOne, TTwo, TTwoBig, TNaClSmall, TBigNaCl, THeavy, TSparse, TEmpty}

RowLetters == <<"A", "B", "C", "D", "E", "F", "G", "H">>

\* destination cell of the k-th block when all destinations differ
DestOf(k) == W(RowLetters[((k - 1) \div 12) + 1], ((k - 1) % 12) + 1)

Block(t, d) == [dest |-> d, vol |-> t.vol, src |-> t.src]

Tables(n, T) == { [k \in 1..n |-> Block(f[k], DestOf(k))] : f \in [1..n -> T] }
SameDestTables(n, T) == { [k \in 1..n |-> Block(f[k], DestOf(1))] : f \in [1..n -> T] }

----------------------------------------------------------------------------
(* Liquid registration, lines 186-199: the last non-blank cell of every    *)
(* present source-well row is registered as NaCl in plasmid_well_map.      *)

NonBlank(row) == SelectSeq(row, LAMBDA c : c # Blank)

nacl_wells_all ==
    { NonBlank(csv[m].src)[Len(NonBlank(csv[m].src))] :
        m \in { k \in 1..mix_count : k <= Len(csv) /\ NonBlank(csv[k].src) # <<>> } }

IsNaCl(src) == src \in nacl_wells_all

----------------------------------------------------------------------------
(* CSV mix parsing and rescaling, lines 205-264. *)

ToFloat(cell) == Rat(cell[1], 10)

\* the parse that also drops the volumes equal to 0
KeptColumnsPositive(b) ==
    LET hi == IF max_plasmid_count < Len(b.vol) THEN max_plasmid_count ELSE Len(b.vol)
        RECURSIVE Keep(_)
        Keep(i) == IF i > hi THEN <<>>
                   ELSE IF b.vol[i] = Blank \/ b.vol[i][1] <= 0 THEN Keep(i + 1)
                   ELSE <<i>> \o Keep(i + 1)
    IN Keep(1)

\* columns i in range(1, min(max_plasmid_count + 1, len(row))) that are kept
KeptColumns(b) ==
    LET hi == IF max_plasmid_count < Len(b.vol) THEN max_plasmid_count ELSE Len(b.vol)
        RECURSIVE Keep(_)
        Keep(i) == IF i > hi THEN <<>>
                   ELSE IF b.vol[i] = Blank \/ b.vol[i][1] < 0 THEN Keep(i + 1)
                   ELSE <<i>> \o Keep(i + 1)
    IN Keep(1)

SourceCell(b, i) == IF b.src[i] # Blank THEN b.src[i] ELSE W("A", i + 1)

\* the test with 1 uL as an inclusive upper limit
IsSmallUpToOne(v) == RLt(Zero, v) /\ RLe(v, One)

IsSmall(v) == RLt(Zero, v) /\ RLt(v, Threshold)

\* the scale factor computed from the parsed volumes (lines 230-241)
ScaleFactor(mix_volumes) ==
    LET small_volumes == SelectSeq(mix_volumes, IsSmall)
    IN IF small_volumes = <<>> THEN One
       ELSE IF Len(small_volumes) > 1 THEN RDiv(Threshold, RSum(small_volumes))
       ELSE RDiv(Threshold, RMin(small_volumes))

\* the parse recording 0.8 / min_small as the factor of every rescaled mix
ParseBlockRecordsMin(b) ==
    LET cols == KeptColumns(b)
        mix_volumes == [k \in 1..Len(cols) |-> ToFloat(b.vol[cols[k]])]
        source_wells == [k \in 1..Len(cols) |-> SourceCell(b, cols[k])]
        small_volumes == SelectSeq(mix_volumes, IsSmall)
        scale_factor == ScaleFactor(mix_volumes)
    IN [volumes |-> IF small_volumes # <<>>
                    THEN [k \in 1..Len(cols) |-> RMul(mix_volumes[k], scale_factor)]
                    ELSE mix_volumes,
        scale_factors |-> IF small_volumes # <<>> THEN <<RDiv(Threshold, RMin(small_volumes))>>
                          ELSE [k \in 1..Len(cols) |-> One],
        source_wells |-> source_wells,
        dest_well |-> b.dest]

ParseBlock(b) ==
    LET cols == KeptColumns(b)
        mix_volumes == [k \in 1..Len(cols) |-> ToFloat(b.vol[cols[k]])]
        source_wells == [k \in 1..Len(cols) |-> SourceCell(b, cols[k])]
        small_volumes == SelectSeq(mix_volumes, IsSmall)
        scale_factor == ScaleFactor(mix_volumes)
    IN [volumes |-> IF small_volumes # <<>>
                    THEN [k \in 1..Len(cols) |-> RMul(mix_volumes[k], scale_factor)]
                    ELSE mix_volumes,
        scale_factors |-> IF small_volumes # <<>> THEN <<scale_factor>>
                          ELSE [k \in 1..Len(cols) |-> One],
        source_wells |-> source_wells,
        dest_well |-> b.dest]

\* the parsed, not yet rescaled volumes of block b
OriginalVolumes(b) == LET cols == KeptColumns(b) IN [k \in 1..Len(cols) |-> ToFloat(b.vol[cols[k]])]

----------------------------------------------------------------------------
(* Dictionaries and the state after construction. *)

Put(f, k, v) == IF k \in DOMAIN f THEN [f EXCEPT ![k] = v] ELSE f @@ (k :> v)
Bump(f, k, v) == IF k \in DOMAIN f THEN [f EXCEPT ![k] = RAdd(@, v)] ELSE f @@ (k :> v)
Get(f, k, dflt) == IF k \in DOMAIN f THEN f[k] ELSE dflt

\* one more occurrence of key k, and of every key of a sequence
Count(f, k) == IF k \in DOMAIN f THEN [f EXCEPT ![k] = @ + 1] ELSE f @@ (k :> 1)

RECURSIVE CountAll(_, _)
CountAll(f, ks) == IF ks = <<>> THEN f ELSE CountAll(Count(f, ks[1]), Tail(ks))

Epp(w) == <<"epp", w>>      \* a tube of plasmid_plate
Pcr(w) == <<"pcr", w>>      \* a well of pcr_plate

\* the row-major tip list of a rack, from index start on (lines 116, 137)
TipList(size, start) == [k \in 1..(size - start) |-> start + k - 1]

InitInputs ==
    /\ \/ max_plasmid_count = DefaultMaxPlasmid
       \/ /\ max_plasmid_count = TruncatedMax
          /\ csv \in Tables(MaxMix, ColumnTemplates)
    /\ \/ /\ csv \in UNION { Tables(n, Templates) : n \in 1..MaxMix }
          /\ mix_count = Len(csv)
          /\ premix \in BOOLEAN
          /\ starting_tip_50 \in 0..(Rack50 - 1)
          /\ starting_tip_200 = 0
       \/ /\ csv \in SameDestTables(2, {TNormal, TOne, TTwo})
          /\ mix_count = Len(csv)
          /\ premix = FALSE
          /\ starting_tip_50 = 0
          /\ starting_tip_200 = 0
       \/ /\ csv \in UNION { Tables(n, {TNormal, TOne}) : n \in 0..1 }
          /\ mix_count = Len(csv) + 1
          /\ premix = FALSE
          /\ starting_tip_50 = 0
          /\ starting_tip_200 = 0
       \/ /\ csv \in Tables(MaxMix, {TOne, TNoSrc})
          /\ mix_count = Len(csv)
          /\ premix = FALSE
          /\ starting_tip_50 = 0
          /\ starting_tip_200 = 0
       \/ /\ csv \in Tables(ScenarioRun, {TScen})
          /\ mix_count = Len(csv)
          /\ premix = FALSE
          /\ starting_tip_50 = 0
          /\ starting_tip_200 = 0
       \/ /\ csv \in Tables(LongRun, {TTwo})
                    \cup { Append(t, Block(TEmpty, DestOf(LongRun + 1))) : t \in Tables(LongRun, {TTwo}) }
          /\ mix_count = Len(csv)
          /\ premix = FALSE
          /\ starting_tip_50 = 0
          /\ starting_tip_200 = 0
       \/ /\ csv \in Tables(NaClRun, NaClTemplates)
          /\ mix_count = Len(csv)
          /\ premix = FALSE
          /\ starting_tip_50 = 0
          /\ starting_tip_200 = 0
       \/ /\ csv \in Tables(LongRunOne, {TOne})
          /\ mix_count = Len(csv)
          /\ premix \in BOOLEAN
          /\ starting_tip_50 = 0
          /\ starting_tip_200 = 0
       \/ /\ csv \in Tables(MaxMix, ColumnTemplates)
          /\ mix_count = Len(csv)
          /\ premix = FALSE
          /\ starting_tip_50 = 0
          /\ starting_tip_200 = 0
       \/ /\ csv \in Tables(PremixRun, {TNormal})
          /\ mix_count = Len(csv)
          /\ premix \in BOOLEAN
          /\ starting_tip_50 = 0
          /\ starting_tip_200 = 0

\* the state of the aliquoting run after lines 164-202 and 236-237, the
\* parameters and the tip lists apart
AqFresh ==
    /\ all_wells = <<>>
    /\ destination_wells = <<>>
    /\ counter_1000 = 0
    /\ aq_counter_200 = 0
    /\ has_tip = FALSE
    /\ vol_in_tip = 0
    /\ well_index = 0
    /\ aq_i = 0
    /\ tip_liquid = 0
    /\ tip_peak = 0
    /\ aq_picked = {}
    /\ aq_commands = 0
    /\ pcr_received = <<>>
    /\ cell_received = {}
    /\ aq_msgs = {}
    /\ aq_raised = "none"

\* the aliquoting protocol not running
AqIdle ==
    /\ aq_mix_count = 0 /\ reagent_vol = 0 /\ aliquot_vol = 0
    /\ mix_position = <<0, 1>> /\ mix_rows_count = 0 /\ mix_columns_per_row = 0
    /\ aq_premix = FALSE
    /\ tips1000_by_row = <<>> /\ aq_tips200_by_row = <<>>
    /\ aq_pc = "idle"
    /\ AqFresh

Init ==
    /\ AqIdle
    /\ InitInputs
    /\ pc = "parse"
    /\ mi = 1
    /\ all_mix_data = <<>>
    /\ intermediate_small_pool = [i \in 1..PoolSize |-> W("C", i)]
    /\ intermediate_final_pool = [i \in 1..PoolSize |-> W("D", i)]
    /\ intermediate_pool = [i \in 1..PoolSize |-> W("C", i)] \o [i \in 1..PoolSize |-> W("D", i)]
    /\ assigned_small_wells = <<>>
    /\ assigned_final_wells = <<>>
    /\ alloc_break = 0
    /\ nacl_order = <<>>
    /\ nacl_totals = <<>>
    /\ nacl_dests = <<>>
    /\ nacl_groups = <<>>
    /\ nacl_pipette = <<>>
    /\ nacl_asp = <<>>
    /\ tiprack_50 = "B1"
    /\ tiprack_50_reserve = "B4"
    /\ tips50_by_row = TipList(Rack50, starting_tip_50)
    /\ tips200_by_row = TipList(Rack200, starting_tip_200)
    /\ counter_200 = 0
    /\ counter_50_f = 0
    /\ swaps = 0
    /\ picked = {}
    /\ repicked = {}
    /\ rack_slot = [r \in {"B1", "B4"} |-> r]
    /\ pickups = [p \in {"p50", "p1000"} |-> 0]
    /\ drops = [p \in {"p50", "p1000"} |-> 0]
    /\ holding = {}
    /\ double_pick = FALSE
    /\ premixed_sources = {}
    /\ xk = 0
    /\ dispensed = <<>>
    /\ aspirated = <<>>
    /\ cmd_mixes = {}
    /\ nacl_to = {}
    /\ nacl_draws = <<>>
    /\ xfer_draws = <<>>
    /\ asp_log = {}
    /\ premix_count = <<>>
    /\ msgs = {}
    /\ raised = "none"

tipvars == <<tiprack_50, tiprack_50_reserve, tips50_by_row, tips200_by_row,
             counter_200, counter_50_f, swaps, picked, repicked,
             rack_slot, pickups, drops, holding, double_pick>>
allocvars == <<intermediate_small_pool, intermediate_final_pool, intermediate_pool,
               assigned_small_wells, assigned_final_wells, alloc_break>>
naclvars == <<nacl_order, nacl_totals, nacl_dests, nacl_groups, nacl_pipette, nacl_asp>>
liquidvars == <<dispensed, aspirated, cmd_mixes, nacl_to,
                nacl_draws, xfer_draws, asp_log, premix_count>>

----------------------------------------------------------------------------
(* for mix_index in range(mix_count): parse one mix (lines 205-271). *)

\* csv_data[source_row_index][i] is read for every kept column i
ParseRaises(b) == \E k \in 1..Len(KeptColumns(b)) : KeptColumns(b)[k] > Len(b.src)

ParseMix ==
    /\ pc = "parse"
    /\ mi <= Len(csv)
    /\ ~ParseRaises(csv[mi])
    /\ all_mix_data' = Append(all_mix_data, ParseBlock(csv[mi]))
    /\ IF mi = mix_count THEN pc' = "alloc" /\ mi' = 1 ELSE pc' = pc /\ mi' = mi + 1
    /\ UNCHANGED <<raised, inputs, allocvars, naclvars, tipvars, liquidvars, premixed_sources, xk, msgs>>
    /\ UNCHANGED aliqvars

\* the handler without its return: the run goes on with the mixes parsed so far
ParseFailContinue ==
    /\ pc = "parse"
    /\ IF mi <= Len(csv) THEN ParseRaises(csv[mi]) ELSE TRUE
    /\ msgs' = msgs \cup {"Error parsing CSV"}
    /\ pc' = IF all_mix_data = <<>> THEN "returned" ELSE "alloc"
    /\ mi' = 1
    /\ UNCHANGED <<raised, inputs, all_mix_data, allocvars, naclvars, tipvars, liquidvars,
                   premixed_sources, xk>>
    /\ UNCHANGED aliqvars

\* except Exception: protocol.pause(...); return (lines 273-275)
ParseFail ==
    /\ pc = "parse"
    /\ IF mi <= Len(csv) THEN ParseRaises(csv[mi]) ELSE TRUE
    /\ msgs' = msgs \cup {"Error parsing CSV"}
    /\ pc' = "returned"
    /\ UNCHANGED <<raised, inputs, mi, all_mix_data, allocvars, naclvars, tipvars, liquidvars,
                   premixed_sources, xk>>
    /\ UNCHANGED aliqvars

----------------------------------------------------------------------------
(* for mix_data in all_mix_data: assign intermediate wells (lines 295-332). *)

\* sum(1 for v in mix_data['volumes'] if 0 < v/scale < 0.8), line 298
SmallCount(md) ==
    Cardinality({ k \in 1..Len(md.volumes) : IsSmall(RDiv(md.volumes[k], md.scale_factors[1])) })

\* the loop is left after the last mix or by break; the pre-scan of lines
\* 344-345 has no state of its own (MixHasSmallVolumes below)
AllocNext ==
    IF mi = Len(all_mix_data) THEN pc' = "plan" /\ mi' = 1 ELSE pc' = pc /\ mi' = mi + 1

AllocMix ==
    /\ pc = "alloc"
    /\ all_mix_data[mi].scale_factors # <<>>
    /\ LET md == all_mix_data[mi]
           small_volumes_count == SmallCount(md)
       IN \/ /\ small_volumes_count > 1
             /\ intermediate_small_pool # <<>> /\ intermediate_final_pool # <<>>
             /\ intermediate_small_pool' = Tail(intermediate_small_pool)
             /\ intermediate_final_pool' = Tail(intermediate_final_pool)
             /\ assigned_small_wells' = Put(assigned_small_wells, md.dest_well, Head(intermediate_small_pool))
             /\ assigned_final_wells' = Put(assigned_final_wells, md.dest_well, Head(intermediate_final_pool))
             /\ UNCHANGED intermediate_pool
          \/ /\ small_volumes_count = 1
             /\ intermediate_pool # <<>>
             /\ intermediate_pool' = Tail(intermediate_pool)
             /\ assigned_final_wells' = Put(assigned_final_wells, md.dest_well, Head(intermediate_pool))
             /\ UNCHANGED <<intermediate_small_pool, intermediate_final_pool, assigned_small_wells>>
          \/ /\ small_volumes_count = 0
             /\ UNCHANGED <<intermediate_small_pool, intermediate_final_pool, intermediate_pool,
                            assigned_small_wells, assigned_final_wells>>
    /\ AllocNext
    /\ UNCHANGED <<raised, inputs, all_mix_data, alloc_break, naclvars, tipvars, liquidvars,
                   premixed_sources, xk, msgs>>
    /\ UNCHANGED aliqvars

\* protocol.pause("Not enough Eppendorf wells available!"); break
AllocExhausted ==
    /\ pc = "alloc"
    /\ all_mix_data[mi].scale_factors # <<>>
    /\ LET small_volumes_count == SmallCount(all_mix_data[mi])
       IN \/ /\ small_volumes_count > 1
             /\ intermediate_small_pool = <<>> \/ intermediate_final_pool = <<>>
          \/ /\ small_volumes_count = 1
             /\ intermediate_pool = <<>>
    /\ msgs' = msgs \cup {"Not enough Eppendorf wells available!"}
    /\ alloc_break' = mi
    /\ pc' = "plan"
    /\ mi' = 1
    /\ UNCHANGED <<raised, inputs, all_mix_data, intermediate_small_pool, intermediate_final_pool,
                   intermediate_pool, assigned_small_wells, assigned_final_wells,
                   naclvars, tipvars, liquidvars, premixed_sources, xk>>
    /\ UNCHANGED aliqvars

\* mix_data['scale_factors'][0] of a mix without components: uncaught IndexError
AllocCrash ==
    /\ pc = "alloc"
    /\ all_mix_data[mi].scale_factors = <<>>
    /\ pc' = "crashed"
    /\ raised' = "IndexError: scale_factors[0]"
    /\ UNCHANGED <<inputs, mi, all_mix_data, allocvars, naclvars, tipvars, liquidvars,
                   premixed_sources, xk, msgs>>
    /\ UNCHANGED aliqvars

----------------------------------------------------------------------------
(* NaCl dispatch plan (lines 341-371). *)

\* mix_has_small_volumes[dest_well]: a dict keyed by destination well, filled
\* from the rescaled volumes; a later mix with the same key overwrites
MixHasSmallVolumes(dest) ==
    LET ks == { k \in 1..Len(all_mix_data) : all_mix_data[k].dest_well = dest }
        last == CHOOSE k \in ks : \A j \in ks : j <= k
    IN \E i \in 1..Len(all_mix_data[last].volumes) : IsSmall(all_mix_data[last].volumes[i])

\* the destination the NaCl of mix_data is planned for (lines 358-368)
NaClTarget(md) ==
    IF MixHasSmallVolumes(md.dest_well) /\ md.dest_well \in DOMAIN assigned_final_wells
    THEN Epp(assigned_final_wells[md.dest_well])
    ELSE Pcr(md.dest_well)

\* after the planning loop: the dispensing loop, or the transfers when no
\* source well was planned
PlanNext(order) ==
    IF mi = Len(all_mix_data)
    THEN (IF order = <<>> THEN pc' = "xfer" ELSE pc' = "nacl") /\ mi' = 1
    ELSE pc' = pc /\ mi' = mi + 1

PlanNaCl ==
    /\ pc = "plan"
    /\ all_mix_data[mi].volumes # <<>>
    /\ LET md == all_mix_data[mi]
           nacl_vol == md.volumes[Len(md.volumes)]
           nacl_source_well_name == md.source_wells[Len(md.source_wells)]
           entry == [dest |-> NaClTarget(md), vol |-> nacl_vol, mix |-> mi]
       IN IF RLe(nacl_vol, Zero)
          THEN /\ UNCHANGED <<nacl_order, nacl_totals, nacl_dests>>
               /\ PlanNext(nacl_order)
          ELSE /\ nacl_totals' = Bump(nacl_totals, nacl_source_well_name, nacl_vol)
               /\ nacl_dests' = Put(nacl_dests, nacl_source_well_name,
                                    Append(Get(nacl_dests, nacl_source_well_name, <<>>), entry))
               /\ nacl_order' = IF nacl_source_well_name \in DOMAIN nacl_totals
                                THEN nacl_order ELSE Append(nacl_order, nacl_source_well_name)
               /\ PlanNext(nacl_order')
    /\ UNCHANGED <<raised, inputs, all_mix_data, allocvars, nacl_groups, nacl_pipette, nacl_asp,
                   tipvars, liquidvars, premixed_sources, xk, msgs>>
    /\ UNCHANGED aliqvars

\* mix_data['volumes'][-1] of a mix without components: uncaught IndexError
PlanCrash ==
    /\ pc = "plan"
    /\ all_mix_data[mi].volumes = <<>>
    /\ pc' = "crashed"
    /\ raised' = "IndexError: volumes[-1]"
    /\ UNCHANGED <<inputs, mi, all_mix_data, allocvars, naclvars, tipvars, liquidvars,
                   premixed_sources, xk, msgs>>
    /\ UNCHANGED aliqvars

----------------------------------------------------------------------------
(* Tip pick-up (lines 382-390 and the same pattern at every transfer) and  *)
(* swap_rack50 (lines 125-134).                                            *)

\* the swap rebuilding the list from the configured starting tip on
Tips50ReadyFromStart ==
    IF tips50_by_row = <<>> THEN TipList(Rack50, starting_tip_50) ELSE tips50_by_row

\* the 50 uL list after "if not tips50_by_row: swap_rack50()"
Tips50Ready == IF tips50_by_row = <<>> THEN TipList(Rack50, 0) ELSE tips50_by_row

\* the pick-up with a swap that resets the reported counter
PickUp50ResetOnSwap ==
    LET swap == tips50_by_row = <<>>
        rack == IF swap THEN tiprack_50_reserve ELSE tiprack_50
        tip == <<"50", rack, Head(Tips50Ready)>>
    IN /\ tiprack_50' = rack
       /\ tiprack_50_reserve' = IF swap THEN tiprack_50 ELSE tiprack_50_reserve
       /\ tips50_by_row' = Tail(Tips50Ready)
       /\ swaps' = IF swap THEN swaps + 1 ELSE swaps
       /\ counter_50_f' = IF swap THEN 1 ELSE counter_50_f + 1
       /\ picked' = picked \cup {tip}
       /\ repicked' = IF tip \in picked THEN repicked \cup {tip} ELSE repicked
       /\ rack_slot' = IF swap
                       THEN [rack_slot EXCEPT ![tiprack_50] = "C4", ![tiprack_50_reserve] = "B1"]
                       ELSE rack_slot
       /\ pickups' = [pickups EXCEPT !["p50"] = @ + 1]
       /\ UNCHANGED <<tips200_by_row, counter_200>>

PickUp50 ==
    LET swap == tips50_by_row = <<>>
        rack == IF swap THEN tiprack_50_reserve ELSE tiprack_50
        tip == <<"50", rack, Head(Tips50Ready)>>
    IN /\ tiprack_50' = rack
       /\ tiprack_50_reserve' = IF swap THEN tiprack_50 ELSE tiprack_50_reserve
       /\ tips50_by_row' = Tail(Tips50Ready)
       /\ swaps' = IF swap THEN swaps + 1 ELSE swaps
       /\ counter_50_f' = counter_50_f + 1
       /\ picked' = picked \cup {tip}
       /\ repicked' = IF tip \in picked THEN repicked \cup {tip} ELSE repicked
       /\ rack_slot' = IF swap
                       THEN [rack_slot EXCEPT ![tiprack_50] = "C4", ![tiprack_50_reserve] = "B1"]
                       ELSE rack_slot
       /\ pickups' = [pickups EXCEPT !["p50"] = @ + 1]
       /\ UNCHANGED <<tips200_by_row, counter_200>>

PickUp200 ==
    LET tip == <<"200", "B2", Head(tips200_by_row)>>
    IN /\ tips200_by_row # <<>>
       /\ tips200_by_row' = Tail(tips200_by_row)
       /\ counter_200' = counter_200 + 1
       /\ picked' = picked \cup {tip}
       /\ repicked' = IF tip \in picked THEN repicked \cup {tip} ELSE repicked
       /\ pickups' = [pickups EXCEPT !["p1000"] = @ + 1]
       /\ UNCHANGED <<tiprack_50, tiprack_50_reserve, tips50_by_row, swaps, counter_50_f,
                      rack_slot>>

PickUp(pipette) == IF pipette = "p50" THEN PickUp50 ELSE PickUp200

\* the rest of a step that began with pick_up_tip on pipette: the tip is
\* attached while the liquid is moved, and dropped says whether the step
\* reaches its pipette.drop_tip()
TipCycle(pipette, dropped) ==
    /\ double_pick' = (double_pick \/ pipette \in holding)
    /\ holding' = IF dropped THEN holding \ {pipette} ELSE holding \cup {pipette}
    /\ drops' = IF dropped THEN [drops EXCEPT ![pipette] = @ + 1] ELSE drops

----------------------------------------------------------------------------
(* NaCl multi-dispensing, one source well per step (lines 374-415). *)

\* the greedy packing of lines 392-403
RECURSIVE Pack(_, _, _, _, _)
Pack(dest_list, group, current_sum, grouped, limit) ==
    IF dest_list = <<>>
    THEN (IF group # <<>> THEN Append(grouped, group) ELSE grouped)
    ELSE IF RLe(RAdd(current_sum, dest_list[1].vol), limit)
         THEN Pack(Tail(dest_list), Append(group, dest_list[1]),
                   RAdd(current_sum, dest_list[1].vol), grouped, limit)
         ELSE Pack(Tail(dest_list), <<dest_list[1]>>, dest_list[1].vol,
                   Append(grouped, group), limit)

\* the packing without the closing "if group: grouped.append(group)"
GroupedNoFlush(dest_list, max_vol) ==
    LET g == Pack(dest_list, <<>>, Zero, <<>>, RSub(max_vol, buffer))
    IN SubSeq(g, 1, Len(g) - 1)

Grouped(dest_list, max_vol) == Pack(dest_list, <<>>, Zero, <<>>, RSub(max_vol, buffer))

\* the choice that forgets the buffer
MaxVolNoBuffer(total_vol) == IF RLe(total_vol, V50) THEN V50 ELSE V200

\* max_vol = 50 if total_vol + buffer <= 50 else 200
MaxVol(total_vol) == IF RLe(RAdd(total_vol, buffer), V50) THEN V50 ELSE V200

GroupTotal(g) == RSum([k \in 1..Len(g) |-> g[k].vol])

\* the value of group when the loop of lines 395-401 ends
RECURSIVE LastGroup(_, _, _, _)
LastGroup(dest_list, group, current_sum, limit) ==
    IF dest_list = <<>> THEN group
    ELSE IF RLe(RAdd(current_sum, dest_list[1].vol), limit)
         THEN LastGroup(Tail(dest_list), Append(group, dest_list[1]),
                        RAdd(current_sum, dest_list[1].vol), limit)
         ELSE LastGroup(Tail(dest_list), <<dest_list[1]>>, dest_list[1].vol, limit)

\* drop_tip reached only when the packing closed a group before the end
DropsWhenSplit(dest_list, max_vol) ==
    Len(Pack(dest_list, <<>>, Zero, <<>>, RSub(max_vol, buffer))) > 1

\* "if group:" of line 402, under which the groups are executed and the tip
\* is dropped (line 411)
DropsAfterNaCl(dest_list, max_vol) ==
    LastGroup(dest_list, <<>>, Zero, RSub(max_vol, buffer)) # <<>>

RECURSIVE Concat(_)
Concat(ss) == IF ss = <<>> THEN <<>> ELSE ss[1] \o Concat(Tail(ss))

RECURSIVE BumpAll(_, _)
BumpAll(f, entries) ==
    IF entries = <<>> THEN f ELSE BumpAll(Bump(f, entries[1].dest, entries[1].vol), Tail(entries))

NaClNext == IF mi = Len(nacl_order) THEN pc' = "xfer" /\ mi' = 1 ELSE pc' = pc /\ mi' = mi + 1

ExecNaCl ==
    /\ pc = "nacl"
    /\ LET source_well_name == nacl_order[mi]
           dest_list == nacl_dests[source_well_name]
           max_vol == MaxVol(nacl_totals[source_well_name])
           pipette == IF max_vol = V50 THEN "p50" ELSE "p1000"
           grouped == IF DropsAfterNaCl(dest_list, max_vol)
                      THEN Grouped(dest_list, max_vol) ELSE <<>>
           issued == Concat(grouped)
           asp == [k \in 1..Len(grouped) |-> RAdd(GroupTotal(grouped[k]), buffer)]
       IN /\ PickUp(pipette)
          /\ TipCycle(pipette, DropsAfterNaCl(dest_list, max_vol))
          /\ nacl_groups' = Put(nacl_groups, source_well_name, grouped)
          /\ nacl_pipette' = Put(nacl_pipette, source_well_name, pipette)
          /\ nacl_asp' = Put(nacl_asp, source_well_name, asp)
          /\ aspirated' = Bump(aspirated, Epp(source_well_name), RSum(asp))
          /\ dispensed' = BumpAll(dispensed, issued)
          /\ nacl_to' = nacl_to \cup { <<issued[k].mix, issued[k].dest>> : k \in 1..Len(issued) }
          /\ cmd_mixes' = cmd_mixes \cup { issued[k].mix : k \in 1..Len(issued) }
          /\ nacl_draws' = CountAll(nacl_draws,
                [k \in 1..Len(issued) |->
                    <<issued[k].mix, Len(all_mix_data[issued[k].mix].volumes)>>])
          /\ asp_log' = asp_log \cup { <<pipette, asp[k]>> : k \in 1..Len(asp) }
          /\ UNCHANGED <<xfer_draws, premix_count>>
    /\ NaClNext
    /\ UNCHANGED <<raised, inputs, all_mix_data, allocvars, nacl_order, nacl_totals, nacl_dests,
                   premixed_sources, xk, msgs>>
    /\ UNCHANGED aliqvars

----------------------------------------------------------------------------
(* Plasmid transfers of one mix (lines 427-624).  One step is one          *)
(* pick-up / aspirate / dispense / drop cycle.                             *)

\* the first component of the mix whose source well still has to be
\* premixed (lines 437-456), or 0
PremixPending(md) ==
    LET ks == { k \in 1..Len(md.source_wells) :
                  ~IsNaCl(md.source_wells[k]) /\ md.source_wells[k] \notin premixed_sources }
    IN IF premix /\ ks # {} THEN CHOOSE k \in ks : \A j \in ks : k <= j ELSE 0

PipetteFor(vol) == IF RLe(vol, V50) THEN "p50" ELSE "p1000"

Move(kind, pipette, vol, from, to) ==
    [kind |-> kind, pipette |-> pipette, vol |-> vol, from |-> from, to |-> to]

\* a dictionary lookup that raises KeyError
KeyErrorStep == Move("KeyError", "none", Zero, <<>>, <<>>)

\* the components that are not NaCl wells, split as in lines 460-471
SmallIndices(md) ==
    SelectSeq([k \in 1..Len(md.volumes) |-> k],
              LAMBDA k : ~IsNaCl(md.source_wells[k])
                         /\ IsSmall(RDiv(md.volumes[k], md.scale_factors[1])))

NormalIndices(md) ==
    SelectSeq([k \in 1..Len(md.volumes) |-> k],
              LAMBDA k : ~IsNaCl(md.source_wells[k])
                         /\ ~IsSmall(RDiv(md.volumes[k], md.scale_factors[1])))

\* total_volume = sum(v / scale for v in volumes if v > 0), line 577
TotalVolume(md) ==
    RSum([k \in 1..Len(md.volumes) |->
            IF RLt(Zero, md.volumes[k]) THEN RDiv(md.volumes[k], md.scale_factors[1]) ELSE Zero])

\* the transfers of the normal components into location to (lines 558-575, 607-624)
NormalSteps(md, to) ==
    LET idx == SelectSeq(NormalIndices(md), LAMBDA k : RLt(Zero, md.volumes[k]))
    IN [j \in 1..Len(idx) |->
          Move("normal", PipetteFor(md.volumes[idx[j]]), md.volumes[idx[j]],
               Epp(md.source_wells[idx[j]]), to) @@ [comp |-> idx[j]]]

\* the staging of the small components, volume x 10, into the small vessel (lines 482-500)
SmallSteps(md, small_well) ==
    LET small_volumes == [j \in 1..Len(SmallIndices(md)) |-> RMul(md.volumes[SmallIndices(md)[j]], Ten)]
        idx == SelectSeq([j \in 1..Len(small_volumes) |-> j],
                         LAMBDA j : RLt(Zero, small_volumes[j]) /\ RLe(small_volumes[j], V200))
    IN [i \in 1..Len(idx) |->
          Move("small", PipetteFor(small_volumes[idx[i]]), small_volumes[idx[i]],
               Epp(md.source_wells[SmallIndices(md)[idx[i]]]), Epp(small_well))
          @@ [comp |-> SmallIndices(md)[idx[i]]]]

FinalStep(md, final_well) ==
    Move("final", PipetteFor(TotalVolume(md)), TotalVolume(md), Epp(final_well), Pcr(md.dest_well))

MixSteps(md) ==
    LET small == SmallIndices(md)
        dest_well == md.dest_well
        small_total == RSum([j \in 1..Len(small) |-> RMul(md.volumes[small[j]], Ten)])
        final_transfer == RDiv(small_total, Ten)
    IN IF small = <<>>
       THEN NormalSteps(md, Pcr(dest_well))
       ELSE IF Len(small) > 1
       THEN IF dest_well \notin DOMAIN assigned_small_wells
            THEN <<KeyErrorStep>>
            ELSE SmallSteps(md, assigned_small_wells[dest_well])
                 \o (IF dest_well \notin DOMAIN assigned_final_wells
                     THEN <<KeyErrorStep>>
                     ELSE <<Move("pooled", PipetteFor(final_transfer), final_transfer,
                                 Epp(assigned_small_wells[dest_well]),
                                 Epp(assigned_final_wells[dest_well]))>>
                          \o NormalSteps(md, Epp(assigned_final_wells[dest_well]))
                          \o <<FinalStep(md, assigned_final_wells[dest_well])>>)
       ELSE IF dest_well \notin DOMAIN assigned_final_wells
            THEN <<KeyErrorStep>>
            ELSE <<Move("single", PipetteFor(RDiv(RMul(md.volumes[small[1]], Ten), Ten)),
                        RDiv(RMul(md.volumes[small[1]], Ten), Ten),
                        Epp(md.source_wells[small[1]]), Epp(assigned_final_wells[dest_well]))
                   @@ [comp |-> small[1]]>>
                 \o NormalSteps(md, Epp(assigned_final_wells[dest_well]))
                 \o <<FinalStep(md, assigned_final_wells[dest_well])>>

\* the pipette the next step of the run picks a tip up with
CurrentPipette ==
    IF pc = "nacl" THEN (IF MaxVol(nacl_totals[nacl_order[mi]]) = V50 THEN "p50" ELSE "p1000")
    ELSE IF pc # "xfer" THEN "none"
    ELSE IF xk = 0 /\ PremixPending(all_mix_data[mi]) # 0 THEN "p1000"
    ELSE IF xk < Len(MixSteps(all_mix_data[mi])) THEN MixSteps(all_mix_data[mi])[xk + 1].pipette
    ELSE "none"

mix_vol == [n |-> 200, d |-> 1]
mix_reps == 6

\* premix of one source well with a 200 uL tip (lines 441-456)
Premix ==
    /\ pc = "xfer"
    /\ xk = 0
    /\ PremixPending(all_mix_data[mi]) # 0
    /\ LET src == all_mix_data[mi].source_wells[PremixPending(all_mix_data[mi])]
           moved == RMul(mix_vol, [n |-> mix_reps, d |-> 1])
       IN /\ PickUp200
          /\ TipCycle("p1000", TRUE)
          /\ aspirated' = Bump(aspirated, Epp(src), moved)
          /\ dispensed' = Bump(dispensed, Epp(src), moved)
          /\ premixed_sources' = premixed_sources \cup {src}
          /\ asp_log' = asp_log \cup {<<"p1000", mix_vol>>}
          /\ premix_count' = Count(premix_count, <<(mi - 1) \div batch_size, src>>)
    /\ cmd_mixes' = cmd_mixes \cup {mi}
    /\ UNCHANGED <<raised, inputs, pc, mi, all_mix_data, allocvars, naclvars, xk, nacl_to, msgs,
                   nacl_draws, xfer_draws>>
    /\ UNCHANGED aliqvars

\* one transfer of the current mix
Transfer ==
    /\ pc = "xfer"
    /\ PremixPending(all_mix_data[mi]) = 0
    /\ xk < Len(MixSteps(all_mix_data[mi]))
    /\ LET step == MixSteps(all_mix_data[mi])[xk + 1]
       IN /\ step.kind # "KeyError"
          /\ PickUp(step.pipette)
          /\ TipCycle(step.pipette, TRUE)
          /\ aspirated' = Bump(aspirated, step.from, step.vol)
          /\ dispensed' = Bump(dispensed, step.to, step.vol)
          /\ asp_log' = asp_log \cup {<<step.pipette, step.vol>>}
          /\ xfer_draws' = IF "comp" \in DOMAIN step
                           THEN Count(xfer_draws, <<mi, step.comp>>) ELSE xfer_draws
    /\ xk' = xk + 1
    /\ cmd_mixes' = cmd_mixes \cup {mi}
    /\ UNCHANGED <<raised, inputs, pc, mi, all_mix_data, allocvars, naclvars, premixed_sources,
                   nacl_to, msgs, nacl_draws, premix_count>>
    /\ UNCHANGED aliqvars

\* assigned_small_wells[dest_well] / assigned_final_wells[dest_well] of a mix
\* the allocation never reached: uncaught KeyError
KeyErrorCrash ==
    /\ pc = "xfer"
    /\ PremixPending(all_mix_data[mi]) = 0
    /\ xk < Len(MixSteps(all_mix_data[mi]))
    /\ MixSteps(all_mix_data[mi])[xk + 1].kind = "KeyError"
    /\ pc' = "crashed"
    /\ raised' = "KeyError: assigned well"
    /\ UNCHANGED <<inputs, mi, all_mix_data, allocvars, naclvars, tipvars, liquidvars,
                   premixed_sources, xk, msgs>>
    /\ UNCHANGED aliqvars

\* tips200_by_row.pop(0) on the empty list: uncaught IndexError
TipsExhausted ==
    /\ CurrentPipette = "p1000"
    /\ tips200_by_row = <<>>
    /\ pc' = "crashed"
    /\ raised' = "IndexError: tips200_by_row.pop(0)"
    /\ UNCHANGED <<inputs, mi, all_mix_data, allocvars, naclvars, tipvars, liquidvars,
                   premixed_sources, xk, msgs>>
    /\ UNCHANGED aliqvars

\* the end of a mix with premixed_sources kept from one batch to the next
EndMixKeepsPremixed ==
    /\ pc = "xfer"
    /\ PremixPending(all_mix_data[mi]) = 0
    /\ xk = Len(MixSteps(all_mix_data[mi]))
    /\ xk' = 0
    /\ IF mi = mix_count THEN pc' = "done" /\ mi' = mi ELSE pc' = pc /\ mi' = mi + 1
    /\ UNCHANGED <<raised, inputs, all_mix_data, allocvars, naclvars, tipvars, liquidvars, msgs,
                   premixed_sources>>
    /\ UNCHANGED aliqvars

\* end of one iteration of "for mix_data in batch_mix_data"; a new batch
\* starts with premixed_sources = set(); after the last mix the counters
\* are printed (lines 627-630)
EndMix ==
    /\ pc = "xfer"
    /\ PremixPending(all_mix_data[mi]) = 0
    /\ xk = Len(MixSteps(all_mix_data[mi]))
    /\ xk' = 0
    /\ IF mi = mix_count THEN pc' = "done" /\ mi' = mi ELSE pc' = pc /\ mi' = mi + 1
    /\ premixed_sources' = IF mi % batch_size = 0 THEN {} ELSE premixed_sources
    /\ UNCHANGED <<raised, inputs, all_mix_data, allocvars, naclvars, tipvars, liquidvars, msgs>>
    /\ UNCHANGED aliqvars

Next ==
    \/ ParseMix
    \/ ParseFail
    \/ AllocMix
    \/ AllocExhausted
    \/ AllocCrash
    \/ PlanNaCl
    \/ PlanCrash
    \/ ExecNaCl
    \/ Premix
    \/ Transfer
    \/ KeyErrorCrash
    \/ TipsExhausted
    \/ EndMix

Spec == Init /\ [][Next]_vars

TypeOK ==
    /\ pc \in {"idle", "parse", "alloc", "plan", "nacl", "xfer", "done", "returned", "crashed"}
    /\ Len(all_mix_data) <= mix_count
    /\ counter_200 <= Rack200

----------------------------------------------------------------------------
(* The aliquoting protocol: DNAmix_aliquoting_final.py, function run. *)

AqMaxMix == 4        \* largest mix_count
AqMaxRows == 2       \* largest mix_rows_count
AqMaxCols == 3       \* largest mix_columns_per_row
AqRack == 3          \* tips per rack
AqLongRun == 25      \* mix_count of the run that fills the cell plate and goes on

PlateRows == 8       \* len("ABCDEFGH")
PlateCols == 12      \* columns of the 96-well PCR plate
SafeMax == 900       \* 1000 * 0.9
RackSize == 96       \* tips of a 96-tip rack
CellPlateMixes == 24 \* 6 mixes per block, 4 blocks

\* the starting wells the run is checked on: A1, C1, C11, G1, H12
AqPositions == {<<0, 1>>, <<2, 1>>, <<2, 11>>, <<6, 1>>, <<7, 12>>}

AqInputs ==
    \/ /\ aq_mix_count \in 1..AqMaxMix
       /\ reagent_vol \in {88, 400, 1000}
       /\ aliquot_vol \in {20, 60}
       /\ mix_position \in AqPositions
       /\ mix_rows_count \in 1..AqMaxRows
       /\ mix_columns_per_row \in 1..AqMaxCols
       /\ aq_premix \in BOOLEAN
       /\ tips1000_by_row = TipList(AqRack, 0)
       /\ aq_tips200_by_row \in {TipList(AqRack, 0), TipList(AqRack, AqRack - 1)}
    \* a run over the first rows of the plate with whole racks of tips
    \/ /\ aq_mix_count \in {CellPlateMixes, AqLongRun}
       /\ reagent_vol = 88
       /\ aliquot_vol \in {20, 60}
       /\ mix_position = <<0, 1>>
       /\ mix_rows_count = 3
       /\ mix_columns_per_row = PlateCols
       /\ aq_premix = FALSE
       /\ tips1000_by_row = TipList(RackSize, 0)
       /\ aq_tips200_by_row = TipList(RackSize, 0)

\* the DNA-mix protocol not running
DnaIdle ==
    /\ csv = <<>> /\ mix_count = 0 /\ max_plasmid_count = DefaultMaxPlasmid
    /\ premix = FALSE /\ starting_tip_50 = 0 /\ starting_tip_200 = 0
    /\ pc = "idle" /\ mi = 1 /\ all_mix_data = <<>>
    /\ intermediate_small_pool = <<>> /\ intermediate_final_pool = <<>>
    /\ intermediate_pool = <<>>
    /\ assigned_small_wells = <<>> /\ assigned_final_wells = <<>> /\ alloc_break = 0
    /\ nacl_order = <<>> /\ nacl_totals = <<>> /\ nacl_dests = <<>> /\ nacl_groups = <<>>
    /\ nacl_pipette = <<>> /\ nacl_asp = <<>>
    /\ tiprack_50 = "B1" /\ tiprack_50_reserve = "B4"
    /\ tips50_by_row = <<>> /\ tips200_by_row = <<>>
    /\ counter_200 = 0 /\ counter_50_f = 0 /\ swaps = 0 /\ picked = {} /\ repicked = {}
    /\ rack_slot = [r \in {"B1", "B4"} |-> r]
    /\ pickups = [p \in {"p50", "p1000"} |-> 0]
    /\ drops = [p \in {"p50", "p1000"} |-> 0]
    /\ holding = {} /\ double_pick = FALSE
    /\ premixed_sources = {} /\ xk = 0 /\ dispensed = <<>> /\ aspirated = <<>>
    /\ cmd_mixes = {} /\ nacl_to = {} /\ msgs = {} /\ raised = "none"
    /\ nacl_draws = <<>> /\ xfer_draws = <<>> /\ asp_log = {} /\ premix_count = <<>>

InitAliq ==
    /\ DnaIdle
    /\ AqInputs
    /\ aq_pc = "geometry"
    /\ AqFresh

\* all_wells, lines 215-216: mix_rows_count rows from the starting row, and
\* in each the columns start_col .. start_col + mix_columns_per_row - 1
AllWells ==
    [k \in 1..(mix_rows_count * mix_columns_per_row) |->
        <<mix_position[1] + ((k - 1) \div mix_columns_per_row),
          mix_position[2] + ((k - 1) % mix_columns_per_row)>>]

\* pcr_plate[well] exists
OnPlate(w) == w[1] \in 0..(PlateRows - 1) /\ w[2] \in 1..PlateCols

\* if row_index + mix_rows_count > len(rows), line 211
TooManyRows == mix_position[1] + mix_rows_count > PlateRows

\* the test comparing the number of wells with the columns per row
NotEnoughWellsPerRow == Len(AllWells) < mix_columns_per_row

\* if len(all_wells) < mix_count, line 218
NotEnoughWells == Len(AllWells) < aq_mix_count

\* the wells of all_wells[:mix_count]
FirstWells ==
    SubSeq(AllWells, 1, IF aq_mix_count < Len(AllWells) THEN aq_mix_count ELSE Len(AllWells))

\* pcr_plate[well] raises KeyError for a well of all_wells[:mix_count], line 222
UnknownWell == \E k \in 1..Len(FirstWells) : ~OnPlate(FirstWells[k])

aqrest == <<aq_mix_count, reagent_vol, aliquot_vol, mix_position, mix_rows_count,
            mix_columns_per_row, aq_premix>>
aqtips == <<tips1000_by_row, aq_tips200_by_row, counter_1000, aq_counter_200, has_tip, aq_picked>>
aqliquid == <<vol_in_tip, well_index, aq_i, tip_liquid, tip_peak, aq_commands, pcr_received,
              cell_received>>

\* lines 211-213
AqTooManyRows ==
    /\ aq_pc = "geometry"
    /\ TooManyRows
    /\ aq_msgs' = aq_msgs \cup {"Error: Too many rows selected for the starting position."}
    /\ aq_raised' = "RuntimeError: Invalid row selection."
    /\ aq_pc' = "raised"
    /\ UNCHANGED <<dnavars, aqrest, aqtips, aqliquid, all_wells, destination_wells>>

\* lines 215-220
AqNotEnoughWells ==
    /\ aq_pc = "geometry"
    /\ ~TooManyRows
    /\ NotEnoughWells
    /\ all_wells' = AllWells
    /\ aq_msgs' = aq_msgs \cup {"Error: Only n wells available for mix placement."}
    /\ aq_raised' = "RuntimeError: Not enough wells assigned for mixes."
    /\ aq_pc' = "raised"
    /\ UNCHANGED <<dnavars, aqrest, aqtips, aqliquid, destination_wells>>

\* line 222 with a well name the plate does not have
AqUnknownWell ==
    /\ aq_pc = "geometry"
    /\ ~TooManyRows
    /\ ~NotEnoughWells
    /\ UnknownWell
    /\ all_wells' = AllWells
    /\ aq_raised' = "KeyError: pcr_plate[well]"
    /\ aq_pc' = "raised"
    /\ UNCHANGED <<dnavars, aqrest, aqtips, aqliquid, destination_wells, aq_msgs>>

\* lines 215-224
AqGeometryOk ==
    /\ aq_pc = "geometry"
    /\ ~TooManyRows
    /\ ~NotEnoughWells
    /\ ~UnknownWell
    /\ all_wells' = AllWells
    /\ destination_wells' = FirstWells
    /\ aq_pc' = "pickup"
    /\ UNCHANGED <<dnavars, aqrest, aqtips, aqliquid, aq_msgs, aq_raised>>

\* target_locs of the i-th mix on the cell plate, lines 268-276
TargetLocs(i) ==
    LET block == (i \div 6) % 4
        col == (i % 6) + 1 + (IF block \in {2, 3} THEN 6 ELSE 0)
        rows_block == IF block % 2 = 0 THEN {"A", "B", "C", "D"} ELSE {"E", "F", "G", "H"}
    IN { W(r, col) : r \in rows_block }

\* the volume drawn when the tip is refilled, line 244
ToAspirate(remaining_wells) ==
    IF SafeMax < remaining_wells * reagent_vol THEN SafeMax ELSE remaining_wells * reagent_vol

\* the aliquot tip comes from the 200 uL rack, line 274
Uses200 == aliquot_vol * 4 <= 200

\* lines 226-237
AqPickUp ==
    /\ aq_pc = "pickup"
    /\ IF ~has_tip
       THEN /\ counter_1000 < Len(tips1000_by_row)
            /\ aq_picked' = aq_picked \cup {<<"1000", tips1000_by_row[counter_1000 + 1]>>}
            /\ counter_1000' = counter_1000 + 1
            /\ has_tip' = TRUE
       ELSE UNCHANGED <<aq_picked, counter_1000, has_tip>>
    /\ vol_in_tip' = 0
    /\ well_index' = 0
    /\ aq_pc' = "distribute"
    /\ UNCHANGED <<dnavars, aqrest, tips1000_by_row, aq_tips200_by_row, aq_counter_200,
                   aq_i, tip_liquid, tip_peak, aq_commands, pcr_received, cell_received,
                   all_wells, destination_wells, aq_msgs, aq_raised>>

\* one pass of the while loop, lines 240-258
AqDistribute ==
    /\ aq_pc = "distribute"
    /\ well_index < aq_mix_count
    /\ LET refill == vol_in_tip < reagent_vol
           to_aspirate == ToAspirate(aq_mix_count - well_index)
           drawn == IF refill THEN to_aspirate ELSE 0
           dest == destination_wells[well_index + 1]
       IN /\ vol_in_tip' = (IF refill THEN to_aspirate ELSE vol_in_tip) - reagent_vol
          /\ tip_liquid' = tip_liquid + drawn - reagent_vol
          /\ tip_peak' = IF tip_liquid + drawn > tip_peak THEN tip_liquid + drawn ELSE tip_peak
          /\ aq_commands' = aq_commands + 1
                            + (IF refill THEN (IF aq_premix THEN 2 ELSE 1) ELSE 0)
          /\ pcr_received' = IF dest \in DOMAIN pcr_received
                             THEN [pcr_received EXCEPT ![dest] = @ + reagent_vol]
                             ELSE pcr_received @@ (dest :> reagent_vol)
    /\ well_index' = well_index + 1
    /\ UNCHANGED <<dnavars, aqrest, aqtips, aq_i, cell_received, aq_pc,
                   all_wells, destination_wells, aq_msgs, aq_raised>>

\* lines 260-263
AqDropTip ==
    /\ aq_pc = "distribute"
    /\ well_index >= aq_mix_count
    /\ has_tip' = FALSE
    /\ aq_i' = 0
    /\ aq_pc' = "aliquot"
    /\ UNCHANGED <<dnavars, aqrest, tips1000_by_row, aq_tips200_by_row, counter_1000,
                   aq_counter_200, aq_picked, vol_in_tip, well_index, tip_liquid, tip_peak,
                   aq_commands, pcr_received, cell_received,
                   all_wells, destination_wells, aq_msgs, aq_raised>>

\* one pass of the for loop, lines 266-297
AqAliquot ==
    /\ aq_pc = "aliquot"
    /\ aq_i < Len(destination_wells)
    /\ IF Uses200
       THEN /\ aq_counter_200 < Len(aq_tips200_by_row)
            /\ aq_picked' = aq_picked \cup {<<"200", aq_tips200_by_row[aq_counter_200 + 1]>>}
            /\ aq_counter_200' = aq_counter_200 + 1
            /\ UNCHANGED counter_1000
       ELSE /\ counter_1000 < Len(tips1000_by_row)
            /\ aq_picked' = aq_picked \cup {<<"1000", tips1000_by_row[counter_1000 + 1]>>}
            /\ counter_1000' = counter_1000 + 1
            /\ UNCHANGED aq_counter_200
    /\ aq_commands' = aq_commands + 6
    /\ cell_received' = cell_received \cup { <<t, aq_i>> : t \in TargetLocs(aq_i) }
    /\ aq_i' = aq_i + 1
    /\ UNCHANGED <<dnavars, aqrest, tips1000_by_row, aq_tips200_by_row, has_tip,
                   vol_in_tip, well_index, tip_liquid, tip_peak, pcr_received, aq_pc,
                   all_wells, destination_wells, aq_msgs, aq_raised>>

\* lines 274-279 with the counter past the end of the tip list
AqTipIndexError ==
    /\ aq_pc = "aliquot"
    /\ aq_i < Len(destination_wells)
    /\ IF Uses200
       THEN aq_counter_200 >= Len(aq_tips200_by_row)
       ELSE counter_1000 >= Len(tips1000_by_row)
    /\ aq_raised' = "IndexError: list index out of range"
    /\ aq_pc' = "raised"
    /\ UNCHANGED <<dnavars, aqrest, aqtips, aqliquid, all_wells, destination_wells, aq_msgs>>

\* lines 303-304
AqComplete ==
    /\ aq_pc = "aliquot"
    /\ aq_i >= Len(destination_wells)
    /\ aq_pc' = "done"
    /\ UNCHANGED <<dnavars, aqrest, aqtips, aqliquid, all_wells, destination_wells,
                   aq_msgs, aq_raised>>

NextAliq ==
    \/ AqTooManyRows
    \/ AqNotEnoughWells
    \/ AqUnknownWell
    \/ AqGeometryOk
    \/ AqPickUp
    \/ AqDistribute
    \/ AqDropTip
    \/ AqAliquot
    \/ AqTipIndexError
    \/ AqComplete

SpecAliq == InitAliq /\ [][NextAliq]_vars

----------------------------------------------------------------------------
(* Vocabulary of the properties. *)

DistinctDests == \A i, j \in 1..Len(csv) : i # j => csv[i].dest # csv[j].dest

\* the allocation loop has ended (after its last mix, or by break)
AllocDone == pc \in {"plan", "nacl", "xfer", "done"}

Mixes == 1..Len(all_mix_data)

\* number of original volumes of mix m strictly between 0 and 0.8
OrigSmallCount(m) ==
    Cardinality({ k \in 1..Len(OriginalVolumes(csv[m])) : IsSmall(OriginalVolumes(csv[m])[k]) })

\* the same, NaCl (the last component) left out
PlasmidSmall(m) ==
    LET v == OriginalVolumes(csv[m])
    IN SelectSeq(SubSeq(v, 1, Len(v) - 1), IsSmall)

\* the scale factor recorded for a parsed mix
MixScale(md) == IF md.scale_factors = <<>> THEN One ELSE md.scale_factors[1]

\* the vessels assigned to destination well d
Vessels(d) ==
    (IF d \in DOMAIN assigned_small_wells THEN {assigned_small_wells[d]} ELSE {})
    \cup (IF d \in DOMAIN assigned_final_wells THEN {assigned_final_wells[d]} ELSE {})

FinalPoolEntries == { W("D", i) : i \in 1..PoolSize }
SmallPoolEntries == { W("C", i) : i \in 1..PoolSize }

\* C1: with pairwise distinct destination wells no tube is assigned to two
\* different mixes, as small or as final vessel, a mix's small and final
\* vessel differ, and, unless a pool ran out, every mix with two or more
\* below-threshold components has both a small and a final vessel.
C1_NoSharedVessel ==
    DistinctDests =>
        /\ \A d1, d2 \in DOMAIN assigned_small_wells \cup DOMAIN assigned_final_wells :
              d1 # d2 => Vessels(d1) \cap Vessels(d2) = {}
        /\ \A d \in DOMAIN assigned_small_wells \cap DOMAIN assigned_final_wells :
              assigned_small_wells[d] # assigned_final_wells[d]
        /\ (AllocDone /\ alloc_break = 0) =>
              \A m \in Mixes : OrigSmallCount(m) >= 2 =>
                  /\ all_mix_data[m].dest_well \in DOMAIN assigned_small_wells
                  /\ all_mix_data[m].dest_well \in DOMAIN assigned_final_wells

\* C2: when the allocation ends without running out of vessels, every mix
\* with exactly one original volume strictly between 0 and 0.8 has one final
\* vessel, taken from the final pool D1..D6, and no small vessel.
C2_OneSmallGetsFinalPoolVessel ==
    (DistinctDests /\ AllocDone /\ alloc_break = 0) =>
        \A m \in Mixes : OrigSmallCount(m) = 1 =>
            /\ all_mix_data[m].dest_well \in DOMAIN assigned_final_wells
            /\ assigned_final_wells[all_mix_data[m].dest_well] \in FinalPoolEntries
            /\ all_mix_data[m].dest_well \notin DOMAIN assigned_small_wells

\* C3: a mix in which no component other than NaCl has an original volume
\* strictly between 0 and 0.8 keeps its volumes (scale factor 1) and is
\* assigned neither a small nor a final vessel.
C3_NoSmallNoRescaleNoVessel ==
    \A m \in Mixes : PlasmidSmall(m) = <<>> =>
        /\ MixScale(all_mix_data[m]) = One
        /\ all_mix_data[m].volumes = OriginalVolumes(csv[m])
        /\ (DistinctDests /\ AllocDone) => Vessels(all_mix_data[m].dest_well) = {}

\* C4: with S the original volumes strictly between 0 and 0.8 among the
\* components other than NaCl, the scale factor of a parsed mix is 1 when S
\* is empty, 0.8/min(S) when S has one element and 0.8/sum(S) otherwise, and
\* every volume of the mix, NaCl included, is the original times that factor.
C4_ScaleFactorFormula ==
    \A m \in Mixes :
        LET S == PlasmidSmall(m)
            f == IF S = <<>> THEN One
                 ELSE IF Len(S) = 1 THEN RDiv(Threshold, RMin(S))
                 ELSE RDiv(Threshold, RSum(S))
        IN /\ MixScale(all_mix_data[m]) = f
           /\ \A k \in 1..Len(all_mix_data[m].volumes) :
                 all_mix_data[m].volumes[k] = RMul(OriginalVolumes(csv[m])[k], f)

\* C5: the NaCl of a mix that has a component (other than the NaCl itself)
\* with an original volume strictly between 0 and 0.8 and was assigned a
\* final vessel is dispensed into that vessel, never into the destination
\* well of the PCR plate, whether the mix has one such component or several.
C5_NaClIntoFinalVessel ==
    DistinctDests =>
        \A e \in nacl_to :
            LET m == e[1]
                d == all_mix_data[m].dest_well
            IN (PlasmidSmall(m) # <<>> /\ d \in DOMAIN assigned_final_wells)
                  => e[2] = Epp(assigned_final_wells[d])

\* the mix uses an intermediate stage: its transfers end with the transfer
\* from the final vessel to the destination well
UsesIntermediate(m) ==
    /\ MixSteps(all_mix_data[m]) # <<>>
    /\ MixSteps(all_mix_data[m])[Len(MixSteps(all_mix_data[m]))].kind = "final"

\* C6: at the end of a run with distinct destination wells, the destination
\* well of every mix that used an intermediate stage has received, in NaCl
\* dispensed directly plus the final transfer, the sum of the mix's original
\* volumes.
C6_DestinationReceivesOriginalTotal ==
    (pc = "done" /\ DistinctDests) =>
        \A m \in Mixes : UsesIntermediate(m) =>
            Get(dispensed, Pcr(all_mix_data[m].dest_well), Zero) = RSum(OriginalVolumes(csv[m]))

\* C7: once the allocation has stopped at a mix for lack of a vessel, no tip
\* pick-up, aspirate or dispense is issued for that mix or for a later one.
C7_NothingIssuedAfterFailedAllocation ==
    alloc_break # 0 => \A m \in cmd_mixes : m < alloc_break

\* C8: every dispense group executed for a NaCl source well requests at most
\* capacity minus buffer: 48 on the low-volume pipette, 198 on the high-volume one.
C8_GroupWithinCapacity ==
    \A src \in DOMAIN nacl_groups :
        \A k \in 1..Len(nacl_groups[src]) :
            RLe(GroupTotal(nacl_groups[src][k]), RSub(MaxVol(nacl_totals[src]), buffer))

\* C9: the groups executed for a NaCl source well are its destination list
\* cut into consecutive pieces: every planned (destination, volume) pair is
\* dispensed exactly once, in order, and the group totals add up to the
\* volume planned for the source.
C9_GroupsPartitionDestinations ==
    \A src \in DOMAIN nacl_groups :
        /\ Concat(nacl_groups[src]) = nacl_dests[src]
        /\ RSum([k \in 1..Len(nacl_groups[src]) |-> GroupTotal(nacl_groups[src][k])])
              = nacl_totals[src]
        /\ \A k \in 1..Len(nacl_dests[src]) :
              <<nacl_dests[src][k].mix, nacl_dests[src][k].dest>> \in nacl_to

\* a source well whose destinations were split over two non-empty groups
C9_Witness ==
    \E src \in DOMAIN nacl_groups :
        /\ Len(nacl_groups[src]) >= 2
        /\ \A k \in 1..Len(nacl_groups[src]) : nacl_groups[src][k] # <<>>
        /\ Len(nacl_dests[src]) >= 2

\* C10: no tip is picked up twice, and no position before the configured
\* starting tip of the initial rack is picked up.
C10_NoTipReuse ==
    /\ repicked = {}
    /\ \A t \in picked : t[1] = "50" /\ t[2] = "B1" => t[3] >= starting_tip_50
    /\ \A t \in picked : t[1] = "200" => t[3] >= starting_tip_200

\* C11: on each pipette every pick-up is followed by a drop before the next
\* pick-up of that pipette and before the run ends: between steps no pipette
\* holds a tip, no pick-up was issued on a pipette holding one, and for each
\* class the number of pick-ups equals the number of drops.
C11_PickupsPairedWithDrops ==
    /\ holding = {}
    /\ ~double_pick
    /\ \A p \in {"p50", "p1000"} : pickups[p] = drops[p]

\* a completed run that picked tips up on both pipettes, NaCl dispensing included
C11_Witness ==
    /\ pc = "done"
    /\ nacl_groups # <<>>
    /\ pickups["p50"] >= 2
    /\ pickups["p1000"] >= 1
    /\ drops["p50"] >= 2

\* C12: a step picks up at most one 50 uL tip.  A 50 uL pick-up made with
\* the tip queue empty performs exactly one rack swap: the current rack goes
\* to slot C4, the reserve rack to the operating slot B1, the two roles are
\* exchanged, the queue is rebuilt from the whole installed rack, and the
\* pick-up takes its first tip.  A 50 uL pick-up made with a non-empty queue
\* takes the head of the queue and swaps nothing, and a step without a 50 uL
\* pick-up leaves the racks and the queue alone.
C12_SwapExactlyWhenQueueEmpty ==
    [][ LET n == pickups'["p50"] - pickups["p50"]
        IN /\ n \in {0, 1}
           /\ (n = 1 /\ tips50_by_row = <<>>) =>
                 /\ swaps' = swaps + 1
                 /\ rack_slot'[tiprack_50] = "C4"
                 /\ rack_slot'[tiprack_50_reserve] = "B1"
                 /\ tiprack_50' = tiprack_50_reserve
                 /\ tiprack_50_reserve' = tiprack_50
                 /\ tips50_by_row' = Tail(TipList(Rack50, 0))
                 /\ <<"50", tiprack_50', 0>> \in picked'
           /\ (n = 1 /\ tips50_by_row # <<>>) =>
                 /\ swaps' = swaps
                 /\ UNCHANGED <<tiprack_50, tiprack_50_reserve, rack_slot>>
                 /\ tips50_by_row' = Tail(tips50_by_row)
                 /\ <<"50", tiprack_50, Head(tips50_by_row)>> \in picked'
           /\ n = 0 =>
                 UNCHANGED <<swaps, tiprack_50, tiprack_50_reserve, rack_slot, tips50_by_row>>
      ]_vars

\* the racks after a second swap: the first rack is back in the operating slot
C12_Witness ==
    /\ swaps >= 2
    /\ tiprack_50 = "B1"
    /\ rack_slot["B1"] = "B1"
    /\ rack_slot["B4"] = "C4"
    /\ tips50_by_row # <<>>

\* the run has stopped before completing all mixes: by the return of the
\* parse error handler, on an empty 200 uL tip queue, or on a vessel
\* assignment that is missing after the pools ran out
StoppedEarly ==
    \/ pc = "returned"
    \/ pc = "crashed" /\ raised \in {"IndexError: tips200_by_row.pop(0)", "KeyError: assigned well"}

\* C13: whenever the run stops before completing all mixes, a pause or
\* comment message stating the cause has been issued; in particular a failed
\* tip acquisition on the high-volume class is reported before the halt.
C13_StopReportsCause == StoppedEarly => msgs # {}

\* the table lacks an expected row of mix m: its volume row, or its
\* source-well row while a volume is present
LacksRow(m) ==
    IF m > Len(csv) THEN TRUE
    ELSE csv[m].src = <<>> /\ KeptColumns(csv[m]) # <<>>

\* C14: if the table lacks an expected row of any of the mix_count mixes,
\* the run never leaves the parsing loop except by the pause and return of
\* the error handler: the failing mix is never recorded, no vessel is
\* allocated, and no tip pick-up, aspirate or dispense is issued for any mix.
C14_MissingRowAbortsWholeRun ==
    (\E m \in 1..mix_count : LacksRow(m)) =>
        /\ pc \in {"parse", "returned"}
        /\ pc = "returned" => "Error parsing CSV" \in msgs
        /\ raised = "none"
        /\ \A m \in 1..mix_count : LacksRow(m) => Len(all_mix_data) < m
        /\ assigned_small_wells = <<>>
        /\ assigned_final_wells = <<>>
        /\ picked = {}
        /\ \A p \in {"p50", "p1000"} : pickups[p] = 0
        /\ aspirated = <<>>
        /\ dispensed = <<>>
        /\ cmd_mixes = {}

\* the run has returned on the second mix, after parsing a first mix that
\* needs an intermediate vessel and NaCl
C14_Witness ==
    /\ pc = "returned"
    /\ mix_count >= 2
    /\ ~LacksRow(1)
    /\ LacksRow(2)
    /\ Len(all_mix_data) = 1
    /\ OrigSmallCount(1) = 1

\* no volume of mix m was made smaller by the rescaling
NotShrunk(m) ==
    /\ RLe(One, MixScale(all_mix_data[m]))
    /\ \A k \in 1..Len(all_mix_data[m].volumes) :
          RLe(OriginalVolumes(csv[m])[k], all_mix_data[m].volumes[k])

\* C16: for every mix the scale factor is at least 1 and no component
\* volume is made smaller by rescaling, mixes with two or more
\* below-threshold components included.
C16_ScaleAtLeastOne == \A m \in Mixes : NotShrunk(m)

\* the table of the scenario: ScenarioRun mixes, each with plasmids of 5 and
\* 1 uL and NaCl 10 uL from one shared source well, all three columns read
IsScenario ==
    /\ Len(csv) = ScenarioRun
    /\ mix_count = ScenarioRun
    /\ max_plasmid_count >= Len(TScen.vol)
    /\ \A m \in 1..Len(csv) : csv[m].vol = TScen.vol /\ csv[m].src = TScen.src

\* C17 as stated: in the scenario each mix ends with scale factor 0.8, its
\* 1 uL component rescaled to 0.8 uL, and exactly one final vessel.
C17_ScenarioRescaledToThreshold ==
    IsScenario =>
        \A m \in Mixes :
            /\ MixScale(all_mix_data[m]) = Threshold
            /\ all_mix_data[m].volumes[2] = Threshold
            /\ AllocDone =>
                  /\ all_mix_data[m].dest_well \in DOMAIN assigned_final_wells
                  /\ all_mix_data[m].dest_well \notin DOMAIN assigned_small_wells

\* C17 as amended: in the scenario each mix ends with scale factor 1, its
\* volumes unchanged (the 1 uL component stays 1 uL), and no intermediate
\* vessel is allocated to it.
C17_ScenarioNotRescaled ==
    IsScenario =>
        \A m \in Mixes :
            /\ MixScale(all_mix_data[m]) = One
            /\ all_mix_data[m].volumes = <<[n |-> 5, d |-> 1], One, Ten>>
            /\ AllocDone => Vessels(all_mix_data[m].dest_well) = {}

\* the scenario has run to its end
C17_Witness == IsScenario /\ pc = "done" /\ Len(all_mix_data) = ScenarioRun

ReportedTips200 == counter_200
ReportedTips50 == counter_50_f

\* C20: at the end of a completed run the reported 50 uL counter is the
\* number of low-volume pick-ups of the whole run, rack swaps included, and
\* the reported 200 uL counter is the number of high-volume pick-ups.
C20_CountersMatchPickups ==
    pc = "done" =>
        /\ ReportedTips50 = pickups["p50"]
        /\ ReportedTips200 = pickups["p1000"]

\* a completed run that swapped the 50 uL rack and used both pipettes
C20_Witness ==
    /\ pc = "done"
    /\ swaps >= 1
    /\ pickups["p50"] > Rack50
    /\ pickups["p1000"] >= 1

\* the wells of the rectangle that exist on the PCR plate
AvailableWells ==
    { <<r, c>> \in (0..(PlateRows - 1)) \X (1..PlateCols) :
        /\ r \in mix_position[1]..(mix_position[1] + mix_rows_count - 1)
        /\ c \in mix_position[2]..(mix_position[2] + mix_columns_per_row - 1) }

Exceeds == aq_mix_count > Cardinality(AvailableWells)

\* C15: in the aliquoting protocol, when mix_count exceeds the number of
\* destination wells the start position, the mix rows and the columns per row
\* leave on the 8x12 plate, the run stops with an error before any tip is
\* picked up and before any aspirate or dispense.
C15_NoPipettingWhenWellsExceeded ==
    (aq_pc # "idle" /\ Exceeds) =>
        /\ aq_pc \in {"geometry", "raised"}
        /\ (aq_pc = "raised" => aq_raised # "none")
        /\ aq_picked = {}
        /\ aq_commands = 0
        /\ ~has_tip
        /\ pcr_received = <<>>
        /\ cell_received = {}

C15_Witness ==
    /\ Exceeds
    /\ aq_pc = "raised"
    /\ "Error: Only n wells available for mix placement." \in aq_msgs
    /\ aq_picked = {}

\* number of times liquid was drawn for component k of mix m in each phase
NaClDraws(m, k) == Get(nacl_draws, <<m, k>>, 0)
XferDraws(m, k) == Get(xfer_draws, <<m, k>>, 0)

\* C21: for every mix and every component of it with positive volume, liquid
\* is drawn from the component's source well for that mix exactly once over
\* the whole run: for the last component (NaCl) only in the NaCl phase, for
\* every other component only in the plasmid-transfer phase; nothing is drawn
\* twice at any time, and at the end of the run nothing was skipped.
C21_EachComponentDrawnOnce ==
    \A m \in Mixes : \A k \in 1..Len(all_mix_data[m].volumes) :
        /\ NaClDraws(m, k) + XferDraws(m, k) <= 1
        /\ k < Len(all_mix_data[m].volumes) => NaClDraws(m, k) = 0
        /\ k = Len(all_mix_data[m].volumes) => XferDraws(m, k) = 0
        /\ (pc = "done" /\ RLt(Zero, all_mix_data[m].volumes[k])) =>
              NaClDraws(m, k) + XferDraws(m, k) = 1

\* the tubes of the two pools
IntermediateVessels == SmallPoolEntries \cup FinalPoolEntries

\* C22: at every point of the run the volume aspirated out of an
\* intermediate vessel, small or final, is at most the volume dispensed into
\* it so far.
C22_VesselNeverOverdrawn ==
    \A v \in IntermediateVessels :
        RLe(Get(aspirated, Epp(v), Zero), Get(dispensed, Epp(v), Zero))

\* the capacity of the tips each pipette works with
Capacity(pipette) == IF pipette = "p50" THEN V50 ELSE V200

\* C23: every aspirate issued by the run requests at most the capacity of
\* the pipette it is issued on: 50 on the low-volume pipette, 200 on the
\* high-volume one, for NaCl groups with their buffer, component transfers
\* and the final transfer alike.
C23_AspirateWithinCapacity ==
    \A a \in asp_log : RLe(a[2], Capacity(a[1]))

\* C24: during reagent distribution the liquid held in the tip (aspirated
\* minus dispensed since the pick-up) equals the tracked vol_in_tip, is never
\* negative and never exceeds the safe maximum of 900.
C24_TipVolumeTracked ==
    aq_pc = "distribute" =>
        /\ tip_liquid = vol_in_tip
        /\ tip_liquid >= 0
        /\ tip_peak <= SafeMax

\* C25: no cell-plate well receives aliquots from two different mixes.
C25_CellWellsOfOneMix ==
    \A a, b \in cell_received : a[1] = b[1] => a[2] = b[2]

\* the columns of block b that hold a component: within max_plasmid_count,
\* volume cell present, not blank and not negative
ComponentColumns(b) ==
    { i \in 1..max_plasmid_count : i <= Len(b.vol) /\ b.vol[i] # Blank /\ b.vol[i][1] >= 0 }

\* the k-th smallest element of a set of numbers
Nth(S, k) == CHOOSE i \in S : Cardinality({ j \in S : j < i }) = k - 1

\* C26: the components parsed for a mix are exactly the columns within
\* max_plasmid_count whose volume cell is not blank and holds a value of at
\* least 0, in column order; the source well of a component is the source
\* cell of its column, or "A" followed by the column index plus one when
\* that cell is blank; the volume list and the source-well list have the
\* same length; and a parse that stops does so on a source row that lacks
\* the cell of a kept column, never on a blank or negative cell.
C26_ParsedComponents ==
    /\ \A m \in Mixes :
          LET b == csv[m]
              md == all_mix_data[m]
              cols == ComponentColumns(b)
          IN /\ Len(md.volumes) = Cardinality(cols)
             /\ Len(md.source_wells) = Len(md.volumes)
             /\ \A k \in 1..Len(md.volumes) :
                   LET i == Nth(cols, k)
                   IN /\ md.source_wells[k] = (IF b.src[i] # Blank THEN b.src[i] ELSE W("A", i + 1))
                      /\ md.volumes[k] = RMul(Rat(b.vol[i][1], 10), MixScale(md))
    /\ pc = "returned" =>
          \/ mi > Len(csv)
          \/ \E i \in ComponentColumns(csv[mi]) : i > Len(csv[mi].src)

\* a parsed mix whose row has a negative cell, a blank cell and a kept column
\* without source cell, next to a run whose limit cuts the row short
C26_Witness ==
    /\ pc = "done"
    /\ \E m \in Mixes :
          /\ csv[m].vol = TGaps.vol
          /\ \/ /\ max_plasmid_count = DefaultMaxPlasmid
                /\ all_mix_data[m].source_wells = <<W("A", 3), W("A", 4), W("B", 1)>>
             \/ /\ max_plasmid_count = TruncatedMax
                /\ all_mix_data[m].source_wells = <<W("A", 3)>>

\* the batch of 12 consecutive mixes mix m belongs to, counted from 0
BatchOf(m) == (m - 1) \div batch_size

\* <<batch, source well>> for every component of a parsed mix whose source
\* well is not a NaCl well
PlasmidWellUses ==
    { <<BatchOf(m), all_mix_data[m].source_wells[k]>> :
        <<m, k>> \in { x \in Mixes \X (1..DefaultMaxPlasmid) :
                         /\ x[2] <= Len(all_mix_data[x[1]].source_wells)
                         /\ ~IsNaCl(all_mix_data[x[1]].source_wells[x[2]]) } }

\* C27: with premix enabled, in each batch of 12 consecutive mixes every
\* non-NaCl source well the batch uses is premixed exactly once, with one
\* high-volume tip, before the transfers of the first mix of the batch that
\* uses it, and a well used in two batches is premixed once in each; with
\* premix disabled there is no premix step and no premix tip pick-up.
C27_PremixOncePerBatch ==
    /\ [](/\ \A key \in DOMAIN premix_count : premix_count[key] = 1
          /\ DOMAIN premix_count \subseteq PlasmidWellUses
          /\ ~premix => premix_count = <<>>
          /\ premix =>
                \A x \in DOMAIN xfer_draws :
                    <<BatchOf(x[1]), all_mix_data[x[1]].source_wells[x[2]]>> \in DOMAIN premix_count
          /\ (premix /\ pc = "done") => PlasmidWellUses \subseteq DOMAIN premix_count)
    /\ [][ premix_count' # premix_count =>
             /\ premix
             /\ Cardinality(DOMAIN premix_count') = Cardinality(DOMAIN premix_count) + 1
             /\ pickups'["p1000"] = pickups["p1000"] + 1
             /\ pickups'["p50"] = pickups["p50"]
             /\ Cardinality(picked') = Cardinality(picked) + 1
             /\ xfer_draws' = xfer_draws
         ]_vars

\* a completed run of two batches in which the same well was premixed in each
C27_Witness ==
    /\ premix
    /\ pc = "done"
    /\ \E w \in {W("A", 1)} : <<0, w>> \in DOMAIN premix_count /\ <<1, w>> \in DOMAIN premix_count
    /\ Mixes = 1..PremixRun

====
